---------------------------- MODULE Spec2Model ----------------------------
(***************************************************************************)
(* State-machine model of src/sql_export.py: the __main__ block,           *)
(* read_sql_from_file, read_db_config, validate_sql and                    *)
(* execute_query_and_export_to_excel (try / except / finally included).    *)
(*                                                                         *)
(* Text is a sequence of one-character strings; the character U+001F is    *)
(* written "US".  A cell is a record [k, s, n]: k = "null" (None / NaN),   *)
(* k = "str" (a Python str, characters in s) or k = "num" (a number n).    *)
(* A row is a tuple of cells, one per column of the query.                 *)
(*                                                                         *)
(* The two size constants of the program are scaled down so that the row   *)
(* loop can be enumerated: SingleFileLimit stands for 500_000 (line 138)   *)
(* and split_size for 200_000 (line 170).  Every comparison the code makes *)
(* with them is kept as written.                                           *)
(*                                                                         *)
(* Library behaviour the model relies on: python-oracledb raises           *)
(* DatabaseError from init_oracle_client, connect, execute and fetch, and  *)
(* InterfaceError (no subclass of DatabaseError) from connection.cursor()  *)
(* and from close() of a cursor that is not open; pandas (before 3.0, the  *)
(* code uses applymap) turns None into the text "None" in astype(str).     *)
(* params.txt and database.txt are taken to be readable and writable.      *)
(***************************************************************************)
EXTENDS Integers, Sequences, FiniteSets, TLC

\* ------------------------------------------------------------- bounds
\* scaled stand-in for the literal 500_000 of line 138
SingleFileLimit == 3
\* scaled stand-in for split_size = 200_000 of line 170
split_size == 2
\* most rows a cursor delivers in one run
MaxRows == 5
\* most rows whose append raises in one run
MaxDropped == 2

\* ------------------------------------------------------------- text
US == "US"
Whitespace == {" ", "\n", "\t", "\r"}

RECURSIVE LStrip(_)
LStrip(s) == IF s # <<>> /\ Head(s) \in Whitespace THEN LStrip(Tail(s)) ELSE s

RECURSIVE RStrip(_)
RStrip(s) ==
    IF s # <<>> /\ s[Len(s)] \in Whitespace
        THEN RStrip(SubSeq(s, 1, Len(s) - 1))
        ELSE s

\* variant: only leading white space is removed
Strip_LeadingOnly(s) == LStrip(s)

\* str.strip()
Strip(s) == RStrip(LStrip(s))

\* variant: only the first occurrence is removed
RECURSIVE Replace_FirstOnly(_, _)
Replace_FirstOnly(s, old) ==
    IF s = <<>> THEN <<>>
    ELSE IF Head(s) = old THEN Tail(s)
    ELSE <<Head(s)>> \o Replace_FirstOnly(Tail(s), old)

\* str.replace(old, '') for a one-character old
RECURSIVE Replace(_, _)
Replace(s, old) ==
    IF s = <<>> THEN <<>>
    ELSE IF Head(s) = old THEN Replace(Tail(s), old)
    ELSE <<Head(s)>> \o Replace(Tail(s), old)

DigitChar == <<"0", "1", "2", "3", "4", "5", "6", "7", "8", "9">>

\* str(n) for a natural number n
RECURSIVE Digits(_)
Digits(n) ==
    IF n < 10 THEN <<DigitChar[n + 1]>>
    ELSE Digits(n \div 10) \o <<DigitChar[(n % 10) + 1]>>

\* format(n, "03d")
Pad3(n) ==
    LET d == Digits(n)
    IN  IF Len(d) >= 3 THEN d
        ELSE [i \in 1..(3 - Len(d)) |-> "0"] \o d

\* ------------------------------------------------------------- cells
Null == [k |-> "null", s |-> <<>>, n |-> 0]
Str(t) == [k |-> "str", s |-> t, n |-> 0]
Num(v) == [k |-> "num", s |-> <<>>, n |-> v]

\* cursor.description of the main query: two text columns and a number column
columns == <<"NAME", "CODE", "AMOUNT">>
NumCols == Len(columns)

\* the rows a cursor can deliver (database columns are typed: columns 1
\* and 2 hold str or NULL, column 3 holds a number or NULL); within a chunk
\* each column is then all values, all NULL, or a mix of the two
RowVals ==
    { <<Str(<<"a", US, "b", US>>), Str(<<"c">>), Num(7)>>,
      <<Null, Null, Null>> }

NoRow == <<Null, Null, Null>>

\* all row sequences of length 0..n
RECURSIVE RowSeqs(_)
RowSeqs(n) ==
    IF n = 0 THEN {<<>>}
    ELSE LET shorter == RowSeqs(n - 1)
         IN  shorter \cup
             {Append(q, r) : q \in {t \in shorter : Len(t) = n - 1}, r \in RowVals}

\* ------------------------------------------------------------- pandas
\* dtype pandas infers for column c of pd.DataFrame(chunk, columns=columns):
\* any str makes the column object; numbers only give int64; numbers with
\* None give float64 (None becomes NaN); a column of None only, or of no
\* rows at all, stays object
ColDtype(chunk, c) ==
    IF \E i \in 1..Len(chunk) : chunk[i][c].k = "str" THEN "object"
    ELSE IF \E i \in 1..Len(chunk) : chunk[i][c].k = "num"
        THEN IF \E i \in 1..Len(chunk) : chunk[i][c].k = "null"
                THEN "float64" ELSE "int64"
    ELSE "object"

\* str(x) as Series.astype(str) applies it to a cell of an object column
AsTypeStr(x) ==
    IF x.k = "str" THEN x
    ELSE IF x.k = "null" THEN Str(<<"N", "o", "n", "e">>)
    ELSE Str(Digits(x.n))

\* value fillna puts in a null cell of a column of the given dtype
FillValue(dtype) == IF dtype = "object" THEN Str(<<>>) ELSE Num(0)

\* DataFrame.fillna(fill_dict), fill_dict computed from the frame's dtypes
FillNa(chunk) ==
    [i \in 1..Len(chunk) |->
        [c \in 1..NumCols |->
            IF chunk[i][c].k = "null"
                THEN FillValue(ColDtype(chunk, c))
                ELSE chunk[i][c]]]

\* the loop over df.columns: object columns become
\* astype(str).str.replace('\x1f', '')
ReplaceObjectColumns(chunk) ==
    [i \in 1..Len(chunk) |->
        [c \in 1..NumCols |->
            IF ColDtype(chunk, c) = "object"
                THEN Str(Replace(AsTypeStr(chunk[i][c]).s, US))
                ELSE chunk[i][c]]]

\* sanitization of the single-file chunk and of a full chunk
SanitizeVectorized(chunk) == FillNa(ReplaceObjectColumns(chunk))

\* df.applymap(lambda x: str(x).replace('\x1f', '') if isinstance(x, str) else x)
ApplyMapReplace(chunk) ==
    [i \in 1..Len(chunk) |->
        [c \in 1..NumCols |->
            IF chunk[i][c].k = "str"
                THEN Str(Replace(chunk[i][c].s, US))
                ELSE chunk[i][c]]]

\* sanitization of the trailing partial chunk
SanitizeApplymap(chunk) == FillNa(ApplyMapReplace(chunk))

\* ------------------------------------------------------------- files
output_base == "output"

\* variant: the single file gets a numbered name
SingleFileName_Numbered == <<output_base, "_", "0", "0", "1", ".xlsx">>

\* "output.xlsx"
SingleFileName == <<output_base, ".xlsx">>

\* f"{output_base}_{file_counter:03d}.xlsx"
ChunkFileName(k) == <<output_base, "_">> \o Pad3(k) \o <<".xlsx">>

\* what one df.to_excel call leaves on disk: the header row and the body;
\* src is the chunk the frame was built from (kept for the properties)
ExcelFile(name, src, df) ==
    [name |-> name, header |-> columns, rows |-> df, src |-> src]

\* params.txt / database.txt
SqlFile == "params.txt"
DefaultSql ==
    <<"S", "E", "L", "E", "C", "T", " ", "*", " ",
      "F", "R", "O", "M", " ", "d", "u", "a", "l", "\n">>

\* contents params.txt can have at start (when it exists)
ParamsContents ==
    { <<" ", "q", " ", "\n">>, <<"\n">> }

Line(key, value) == [key |-> key, value |-> value]
DefaultDbLines ==
    << Line("user", "123"), Line("password", "456"),
       Line("dsn", "localhost:1521/orcl") >>

\* contents database.txt can have at start (when it exists): key=value lines
DbContents ==
    { << Line("user", "u"), Line("password", "p"), Line("dsn", "d") >>,
      << Line("user", "u"), Line("dsn", "d") >> }

\* the dict read_db_config builds: a later line with the same key wins
RECURSIVE ParseConfig(_)
ParseConfig(lines) ==
    IF lines = <<>> THEN << >>
    ELSE LET rest == ParseConfig(SubSeq(lines, 1, Len(lines) - 1))
             last == lines[Len(lines)]
         IN  [k \in DOMAIN rest \cup {last.key} |->
                 IF k = last.key THEN last.value ELSE rest[k]]

\* ------------------------------------------------------------- state
VARIABLES
    pc,             \* position in the program
    exc,            \* exception in flight ("none" when there is none)
    raisedAt,       \* step at which the first exception of the run was raised
    exitCode,       \* process exit status, -1 while the process runs
    fileParams,     \* params.txt: [exists, content]
    fileDb,         \* database.txt: [exists, lines]
    files,          \* the to_excel writes that succeeded, in order
    log,            \* records handed to logging.info / logging.error
    calls,          \* driver calls made so far: [op, obj, ok]
    sql,            \* the query string
    db_config,      \* dict returned by read_db_config
    connection,     \* local variable: "None" or "conn"
    connState,      \* the connection object: "none", "open", "closed"
    cursor,         \* local variable: 0 (None) or the cursor it refers to
    cursorState,    \* per cursor: "unopened", "open", "closed"
    total_rows,     \* result of the count query, -1 before it ran
    columnsBound,   \* the local variable columns has been assigned
    rowBound,       \* the local variable row has been assigned
    row,            \* the loop variable
    delivered,      \* rows handed over by the main-query cursor so far
    current_chunk,
    current_count,
    file_counter,
    dropped,        \* indices (in delivered) of the rows whose append raised
    absentAtStart   \* which of the two input files did not exist at start

vars ==
    << pc, exc, raisedAt, exitCode, fileParams, fileDb, files, log, calls,
       sql, db_config, connection, connState, cursor, cursorState,
       total_rows, columnsBound, rowBound, row, delivered, current_chunk,
       current_count, file_counter, dropped, absentAtStart >>

ctlVars == << exc, raisedAt, exitCode >>
fsVars == << fileParams, fileDb, files, absentAtStart >>
dbVars == << connection, connState, cursor, cursorState >>
loopVars ==
    << rowBound, row, delivered, current_chunk, current_count,
       file_counter, dropped >>

LogRec(tag, idx, r) == [tag |-> tag, idx |-> idx, row |-> r]
Call(op, obj, ok) == [op |-> op, obj |-> obj, ok |-> ok]

Init ==
    /\ pc = "main"
    /\ exc = "none"
    /\ raisedAt = "none"
    /\ exitCode = -1
    /\ fileParams \in
          {[exists |-> FALSE, content |-> <<>>]} \cup
          {[exists |-> TRUE, content |-> t] : t \in ParamsContents}
    /\ fileDb \in
          {[exists |-> FALSE, lines |-> <<>>]} \cup
          {[exists |-> TRUE, lines |-> l] : l \in DbContents}
    /\ files = <<>>
    /\ log = <<>>
    /\ calls = <<>>
    /\ sql = <<>>
    /\ db_config = << >>
    /\ connection = "None"
    /\ connState = "none"
    /\ cursor = 0
    /\ cursorState = <<"unopened", "unopened">>
    /\ total_rows = -1
    /\ columnsBound = FALSE
    /\ rowBound = FALSE
    /\ row = NoRow
    /\ delivered = <<>>
    /\ current_chunk = <<>>
    /\ current_count = 0
    /\ file_counter = 0
    /\ dropped = {}
    /\ absentAtStart =
          [params |-> ~fileParams.exists, db |-> ~fileDb.exists]

\* an exception raised inside the try block: control goes to the except clauses
Raise(e, at) ==
    /\ exc' = e
    /\ raisedAt' = IF raisedAt = "none" THEN at ELSE raisedAt
    /\ pc' = "except"
    /\ exitCode' = exitCode

\* the function is left with exception e in flight ("none": it returns)
Leave(e) ==
    /\ exc' = e
    /\ pc' = IF e = "none" THEN "returned"
             ELSE IF e = "SystemExit" THEN "exited" ELSE "crashed"
    /\ exitCode' = IF e \in {"none", "SystemExit"} THEN 0 ELSE 1

\* ------------------------------------------------------------- __main__
\* sql = read_sql_from_file("params.txt")
ReadSqlFromFile ==
    /\ pc = "main"
    /\ LET created == [exists |-> TRUE, content |-> DefaultSql]
           present == IF fileParams.exists THEN fileParams ELSE created
       IN  /\ fileParams' = present
           /\ sql' = Strip(present.content)
           /\ log' = IF fileParams.exists THEN log
                     ELSE Append(log, LogRec("sql_file_created", 0, NoRow))
    /\ pc' = "init_client"
    /\ UNCHANGED << ctlVars, fileDb, files, absentAtStart, calls, db_config,
                    dbVars, total_rows, columnsBound, loopVars >>

\* oracledb.init_oracle_client(lib_dir=lib_dir)
InitOracleClient ==
    /\ pc = "init_client"
    /\ \E ok \in BOOLEAN :
          /\ calls' = Append(calls, Call("init_oracle_client", 0, ok))
          /\ IF ok
                THEN /\ pc' = "read_db_config"
                     /\ log' = Append(log, LogRec("client_initialised", 0, NoRow))
                     /\ UNCHANGED ctlVars
                ELSE /\ Raise("DatabaseError", "init_client")
                     /\ log' = log
    /\ UNCHANGED << fsVars, sql, db_config, dbVars, total_rows,
                    columnsBound, loopVars >>

\* variant: the placeholder is written and the run goes on with it
ReadDbConfig_NoExit ==
    /\ pc = "read_db_config"
    /\ LET present == IF fileDb.exists THEN fileDb
                      ELSE [exists |-> TRUE, lines |-> DefaultDbLines]
       IN  /\ fileDb' = present
           /\ db_config' = ParseConfig(present.lines)
    /\ log' = IF fileDb.exists THEN log
              ELSE Append(log, LogRec("db_file_created", 0, NoRow))
    /\ pc' = "connect"
    /\ UNCHANGED << ctlVars, fileParams, files, absentAtStart, calls, sql,
                    dbVars, total_rows, columnsBound, loopVars >>

\* db_config = read_db_config()
ReadDbConfig ==
    /\ pc = "read_db_config"
    /\ IF ~fileDb.exists
          THEN \* placeholder written, sys.exit(0): SystemExit passes the
               \* except clauses and runs the finally block
               /\ fileDb' = [exists |-> TRUE, lines |-> DefaultDbLines]
               /\ log' = Append(Append(log, LogRec("db_file_created", 0, NoRow)),
                                LogRec("edit_db_file", 0, NoRow))
               /\ exc' = "SystemExit"
               /\ raisedAt' = "read_db_config"
               /\ pc' = "finally_cursor"
               /\ UNCHANGED << exitCode, db_config >>
          ELSE /\ db_config' = ParseConfig(fileDb.lines)
               /\ pc' = "connect"
               /\ UNCHANGED << ctlVars, fileDb, log >>
    /\ UNCHANGED << fileParams, files, absentAtStart, calls, sql, dbVars,
                    total_rows, columnsBound, loopVars >>

\* connection = oracledb.connect(user=..., password=..., dsn=...)
Connect ==
    /\ pc = "connect"
    /\ IF ~({"user", "password", "dsn"} \subseteq DOMAIN db_config)
          THEN /\ Raise("KeyError", "config_key")
               /\ UNCHANGED << calls, connection, connState >>
          ELSE \E ok \in BOOLEAN :
                 /\ calls' = Append(calls, Call("connect", 0, ok))
                 /\ IF ok
                       THEN /\ connection' = "conn"
                            /\ connState' = "open"
                            /\ pc' = "cursor"
                            /\ UNCHANGED ctlVars
                       ELSE /\ Raise("DatabaseError", "connect")
                            /\ UNCHANGED << connection, connState >>
    /\ UNCHANGED << fsVars, log, sql, db_config, cursor, cursorState,
                    total_rows, columnsBound, loopVars >>

\* cursor = connection.cursor(); cursor.arraysize = 10000
OpenCursor ==
    /\ pc = "cursor"
    /\ \E ok \in BOOLEAN :
          /\ calls' = Append(calls, Call("cursor", 1, ok))
          /\ IF ok
                THEN /\ cursor' = 1
                     /\ cursorState' = [cursorState EXCEPT ![1] = "open"]
                     /\ pc' = "validate"
                     /\ UNCHANGED ctlVars
                ELSE /\ Raise("InterfaceError", "cursor")
                     /\ UNCHANGED << cursor, cursorState >>
    /\ UNCHANGED << fsVars, log, sql, db_config, connection, connState,
                    total_rows, columnsBound, loopVars >>

\* sqlparse.parse(sql): the empty string parses to no statement
Parsed(q) == IF q = <<>> THEN <<>> ELSE <<q>>

\* variant: the failure is logged and not raised again
LogAndReraise_Swallowed ==
    /\ log' = Append(log, LogRec("sql_validation_failed", 0, NoRow))
    /\ pc' = "count"
    /\ UNCHANGED ctlVars

\* except Exception as e: logging.error(...); raise
LogAndReraise ==
    /\ log' = Append(log, LogRec("sql_validation_failed", 0, NoRow))
    /\ Raise("ValueError", "validate")

\* validate_sql(sql)
validate_sql ==
    /\ pc = "validate"
    /\ IF Parsed(sql) = <<>>
          THEN LogAndReraise
          ELSE /\ pc' = "count"
               /\ UNCHANGED << ctlVars, log >>
    /\ UNCHANGED << fsVars, calls, sql, db_config, dbVars, total_rows,
                    columnsBound, loopVars >>

\* cursor.execute(count_sql); total_rows = cursor.fetchone()[0]
CountQuery ==
    /\ pc = "count"
    /\ \E ok \in BOOLEAN :
          /\ calls' = Append(calls, Call("execute_count", cursor, ok))
          /\ IF ok
                THEN /\ \E n \in 0..MaxRows : total_rows' = n
                     /\ log' = Append(log, LogRec("total_rows", 0, NoRow))
                     /\ pc' = "close_count"
                     /\ UNCHANGED ctlVars
                ELSE /\ Raise("DatabaseError", "count")
                     /\ UNCHANGED << total_rows, log >>
    /\ UNCHANGED << fsVars, sql, db_config, dbVars, columnsBound, loopVars >>

\* variant: the limit itself already selects the chunked branch
SingleFileMode_Exclusive == total_rows < SingleFileLimit

\* if total_rows <= 500_000
SingleFileMode == total_rows <= SingleFileLimit

\* cursor.close() of either branch (the first statement of both)
\* variant: the count cursor is dropped without being closed
CountCursorClosed_Leaked == UNCHANGED cursorState

\* the effect of a cursor.close() that returns
CountCursorClosed ==
    cursorState' = [cursorState EXCEPT ![cursor] = "closed"]

CloseCountCursor ==
    /\ pc = "close_count"
    /\ \E ok \in BOOLEAN :
          /\ calls' = Append(calls, Call("close_cursor", cursor, ok))
          /\ IF ok
                THEN /\ CountCursorClosed
                     /\ pc' = "reopen"
                     /\ UNCHANGED ctlVars
                ELSE /\ Raise("DatabaseError", "close_count")
                     /\ UNCHANGED cursorState
    /\ UNCHANGED << fsVars, log, sql, db_config, connection, connState,
                    cursor, total_rows, columnsBound, loopVars >>

\* cursor = connection.cursor(); cursor.arraysize = 10000
ReopenCursor ==
    /\ pc = "reopen"
    /\ \E ok \in BOOLEAN :
          /\ calls' = Append(calls, Call("cursor", 2, ok))
          /\ IF ok
                THEN /\ cursor' = 2
                     /\ cursorState' = [cursorState EXCEPT ![2] = "open"]
                     /\ pc' = "execute"
                     /\ UNCHANGED ctlVars
                ELSE \* the variable cursor keeps the closed count cursor
                     /\ Raise("InterfaceError", "reopen")
                     /\ UNCHANGED << cursor, cursorState >>
    /\ UNCHANGED << fsVars, log, sql, db_config, connection, connState,
                    total_rows, columnsBound, loopVars >>

\* cursor.execute(sql); columns = [desc[0] for desc in cursor.description];
\* in the chunked branch also the initialisation of the loop state
ExecuteMain ==
    /\ pc = "execute"
    /\ \E ok \in BOOLEAN :
          /\ calls' = Append(calls, Call("execute_main", cursor, ok))
          /\ IF ok
                THEN /\ columnsBound' = TRUE
                     /\ current_chunk' = <<>>
                     /\ current_count' = 0
                     /\ file_counter' = IF SingleFileMode THEN file_counter ELSE 1
                     /\ pc' = IF SingleFileMode THEN "fetchall" ELSE "loop"
                     /\ UNCHANGED ctlVars
                ELSE /\ Raise("DatabaseError", "execute")
                     /\ UNCHANGED << columnsBound, current_chunk,
                                     current_count, file_counter >>
    /\ UNCHANGED << fsVars, log, sql, db_config, dbVars, total_rows,
                    rowBound, row, delivered, dropped >>

\* ------------------------------------------------------------- one file
\* data = cursor.fetchall()
FetchAll ==
    /\ pc = "fetchall"
    /\ \/ /\ \E data \in RowSeqs(MaxRows) : delivered' = data
          /\ pc' = "write_single"
          /\ UNCHANGED ctlVars
       \/ /\ Raise("DatabaseError", "fetch")
          /\ UNCHANGED delivered
    /\ UNCHANGED << fsVars, log, calls, sql, db_config, dbVars, total_rows,
                    columnsBound, rowBound, row, current_chunk,
                    current_count, file_counter, dropped >>

\* variant: a failed write is attempted again
ToExcelFails_Retried(at, k) ==
    /\ calls' = Append(calls, Call("to_excel", k, FALSE))
    /\ raisedAt' = at
    /\ UNCHANGED << pc, exc, exitCode >>

\* df.to_excel(...) raises: the exception leaves the try block
ToExcelFails(at, k) ==
    /\ calls' = Append(calls, Call("to_excel", k, FALSE))
    /\ Raise("OSError", at)

\* df = pd.DataFrame(data, columns=columns); the clean-up of the frame;
\* df.to_excel("output.xlsx", ...)
ExportSingle ==
    /\ pc = "write_single"
    /\ \/ /\ files' = Append(files,
                 ExcelFile(SingleFileName, delivered, SanitizeVectorized(delivered)))
          /\ calls' = Append(calls, Call("to_excel", 0, TRUE))
          /\ log' = Append(log, LogRec("exported", 0, NoRow))
          /\ pc' = "finally_cursor"
          /\ UNCHANGED ctlVars
       \/ /\ ToExcelFails("write_single", 0)
          /\ UNCHANGED << files, log >>
    /\ UNCHANGED << fileParams, fileDb, absentAtStart, sql, db_config, dbVars,
                    total_rows, columnsBound, loopVars >>

\* ------------------------------------------------------------- chunks
\* variant: the rows delivered are compared with the counted total
EndOfRows_Validated ==
    IF Len(delivered) = total_rows
        THEN pc' = "after_loop" /\ UNCHANGED ctlVars
        ELSE Raise("ValueError", "row_count")

\* the iterator is exhausted: the loop ends, whatever total_rows was
EndOfRows ==
    /\ pc' = "after_loop"
    /\ UNCHANGED ctlVars

\* for row in tqdm(cursor, total=total_rows): the next row, the end of the
\* result, or a fetch that fails
NextRow ==
    /\ pc = "loop"
    /\ \/ /\ Len(delivered) < MaxRows
          /\ \E r \in RowVals :
                /\ row' = r
                /\ delivered' = Append(delivered, r)
          /\ rowBound' = TRUE
          /\ pc' = "append"
          /\ UNCHANGED ctlVars
       \/ /\ EndOfRows
          /\ UNCHANGED << row, rowBound, delivered >>
       \/ /\ Raise("DatabaseError", "fetch")
          /\ UNCHANGED << row, rowBound, delivered >>
    /\ UNCHANGED << fsVars, log, calls, sql, db_config, dbVars, total_rows,
                    columnsBound, current_chunk, current_count,
                    file_counter, dropped >>

\* variant: the failed row is still counted
RowFailed_Counted ==
    /\ Cardinality(dropped) < MaxDropped
    /\ log' = Append(log, LogRec("row_failed", current_count, row))
    /\ dropped' = dropped \cup {Len(delivered)}
    /\ current_count' = current_count + 1
    /\ UNCHANGED current_chunk

\* current_chunk.append(row) raises: except Exception: logging.error(...);
\* the row is in neither the buffer nor the count
RowFailed ==
    /\ Cardinality(dropped) < MaxDropped
    /\ log' = Append(log, LogRec("row_failed", current_count, row))
    /\ dropped' = dropped \cup {Len(delivered)}
    /\ UNCHANGED << current_chunk, current_count >>

\* try: current_chunk.append(row); current_count += 1
AppendRow ==
    /\ pc = "append"
    /\ \/ /\ current_chunk' = Append(current_chunk, row)
          /\ current_count' = current_count + 1
          /\ UNCHANGED << log, dropped >>
       \/ RowFailed
    /\ pc' = "check_split"
    /\ UNCHANGED << ctlVars, fsVars, calls, sql, db_config, dbVars,
                    total_rows, columnsBound, rowBound, row, delivered,
                    file_counter >>

\* variant: a chunk is written one row late
ChunkIsFull_OneLate == current_count > split_size

\* if current_count >= split_size
ChunkIsFull == current_count >= split_size

\* the body of that if: build, clean and write the frame, then
\* reset the buffer and advance the counter
\* variant: only the count is reset, the buffer keeps its rows
ResetChunk_CountOnly ==
    /\ current_chunk' = current_chunk
    /\ current_count' = 0

\* current_chunk = []; current_count = 0
ResetChunk ==
    /\ current_chunk' = <<>>
    /\ current_count' = 0

\* variant: the counter stays where it is after a write
IncrementCounter_Skipped == file_counter' = file_counter

\* file_counter += 1
IncrementCounter == file_counter' = file_counter + 1

FlushFullChunk ==
    /\ pc = "check_split"
    /\ IF ChunkIsFull
          THEN \/ /\ files' = Append(files,
                         ExcelFile(ChunkFileName(file_counter), current_chunk,
                                   SanitizeVectorized(current_chunk)))
                  /\ calls' = Append(calls, Call("to_excel", file_counter, TRUE))
                  /\ log' = Append(log, LogRec("saved", file_counter, NoRow))
                  /\ ResetChunk
                  /\ IncrementCounter
                  /\ pc' = "loop"
                  /\ UNCHANGED ctlVars
               \/ /\ ToExcelFails("write_full", file_counter)
                  /\ UNCHANGED << files, log, current_chunk, current_count,
                                  file_counter >>
          ELSE /\ pc' = "loop"
               /\ UNCHANGED << ctlVars, calls, files, log, current_chunk,
                               current_count, file_counter >>
    /\ UNCHANGED << fileParams, fileDb, absentAtStart, sql, db_config, dbVars,
                    total_rows, columnsBound, rowBound, row, delivered,
                    dropped >>

\* variant: the trailing write is not guarded
HasRemainder_Always == TRUE

\* if current_chunk: an empty list is false
HasRemainder == current_chunk # <<>>

\* if current_chunk: write what is left under the next counter value
FlushRemainder ==
    /\ pc = "after_loop"
    /\ IF HasRemainder
          THEN \/ /\ files' = Append(files,
                         ExcelFile(ChunkFileName(file_counter), current_chunk,
                                   SanitizeApplymap(current_chunk)))
                  /\ calls' = Append(calls, Call("to_excel", file_counter, TRUE))
                  /\ log' = Append(log, LogRec("saved", file_counter, NoRow))
                  /\ pc' = "finally_cursor"
                  /\ UNCHANGED ctlVars
               \/ /\ ToExcelFails("write_rest", file_counter)
                  /\ UNCHANGED << files, log >>
          ELSE /\ pc' = "finally_cursor"
               /\ UNCHANGED << ctlVars, calls, files, log >>
    /\ UNCHANGED << fileParams, fileDb, absentAtStart, sql, db_config, dbVars,
                    total_rows, columnsBound, loopVars >>

\* ------------------------------------------------------------- except
\* except oracledb.DatabaseError
HandleDatabaseError ==
    /\ pc = "except"
    /\ exc = "DatabaseError"
    /\ log' = Append(log, LogRec("database_error", 0, NoRow))
    /\ exc' = "none"
    /\ pc' = "finally_cursor"
    /\ UNCHANGED << raisedAt, exitCode, fsVars, calls, sql, db_config,
                    dbVars, total_rows, columnsBound, loopVars >>

\* except ValueError
HandleValueError ==
    /\ pc = "except"
    /\ exc = "ValueError"
    /\ log' = Append(log, LogRec("value_error", 0, NoRow))
    /\ exc' = "none"
    /\ pc' = "finally_cursor"
    /\ UNCHANGED << raisedAt, exitCode, fsVars, calls, sql, db_config,
                    dbVars, total_rows, columnsBound, loopVars >>

\* except Exception: the message reads the locals columns and row, and
\* reading a local that was never assigned raises UnboundLocalError
HandleException ==
    /\ pc = "except"
    /\ exc \notin {"DatabaseError", "ValueError"}
    /\ IF columnsBound /\ rowBound
          THEN /\ log' = Append(log, LogRec("error", 0, row))
               /\ exc' = "none"
          ELSE /\ log' = log
               /\ exc' = "UnboundLocalError"
    /\ pc' = "finally_cursor"
    /\ UNCHANGED << raisedAt, exitCode, fsVars, calls, sql, db_config,
                    dbVars, total_rows, columnsBound, loopVars >>

\* ------------------------------------------------------------- finally
\* if cursor: cursor.close()  -- close() of a cursor that is not open raises
\* InterfaceError, and an exception here leaves the finally block at once
FinallyCursor ==
    /\ pc = "finally_cursor"
    /\ IF cursor = 0
          THEN /\ pc' = "finally_connection"
               /\ UNCHANGED << ctlVars, calls, cursorState >>
          ELSE IF cursorState[cursor] # "open"
          THEN /\ calls' = Append(calls, Call("close_cursor", cursor, FALSE))
               /\ raisedAt' = IF raisedAt = "none" THEN "finally_cursor" ELSE raisedAt
               /\ Leave("InterfaceError")
               /\ UNCHANGED cursorState
          ELSE \E ok \in BOOLEAN :
                 /\ calls' = Append(calls, Call("close_cursor", cursor, ok))
                 /\ IF ok
                       THEN /\ cursorState' = [cursorState EXCEPT ![cursor] = "closed"]
                            /\ pc' = "finally_connection"
                            /\ UNCHANGED ctlVars
                       ELSE /\ raisedAt' = IF raisedAt = "none"
                                           THEN "finally_cursor" ELSE raisedAt
                            /\ Leave("DatabaseError")
                            /\ UNCHANGED cursorState
    /\ UNCHANGED << fsVars, log, sql, db_config, connection, connState,
                    cursor, total_rows, columnsBound, loopVars >>

\* if connection: connection.close(); then the function is left
FinallyConnection ==
    /\ pc = "finally_connection"
    /\ IF connection = "None"
          THEN /\ Leave(exc)
               /\ UNCHANGED << raisedAt, calls, connState >>
          ELSE \E ok \in BOOLEAN :
                 /\ calls' = Append(calls, Call("close_connection", 0, ok))
                 /\ IF ok
                       THEN /\ connState' = "closed"
                            /\ Leave(exc)
                            /\ UNCHANGED raisedAt
                       ELSE /\ raisedAt' = IF raisedAt = "none"
                                           THEN "finally_connection" ELSE raisedAt
                            /\ Leave("DatabaseError")
                            /\ UNCHANGED connState
    /\ UNCHANGED << fsVars, log, sql, db_config, connection, cursor,
                    cursorState, total_rows, columnsBound, loopVars >>

\* ------------------------------------------------------------- system
Next ==
    \/ ReadSqlFromFile
    \/ InitOracleClient
    \/ ReadDbConfig
    \/ Connect
    \/ OpenCursor
    \/ validate_sql
    \/ CountQuery
    \/ CloseCountCursor
    \/ ReopenCursor
    \/ ExecuteMain
    \/ FetchAll
    \/ ExportSingle
    \/ NextRow
    \/ AppendRow
    \/ FlushFullChunk
    \/ FlushRemainder
    \/ HandleDatabaseError
    \/ HandleValueError
    \/ HandleException
    \/ FinallyCursor
    \/ FinallyConnection

Spec == Init /\ [][Next]_vars

\* ------------------------------------------------------------- properties
Done == pc \in {"returned", "exited", "crashed"}

\* the function returned and nothing was raised on the way
CleanRun == pc = "returned" /\ raisedAt = "none"

Counted == total_rows # -1
MultiFileMode == Counted /\ ~SingleFileMode

RECURSIVE SumRows(_)
SumRows(fs) == IF fs = <<>> THEN 0 ELSE Len(Head(fs).rows) + SumRows(Tail(fs))

FullFiles == {i \in 1..Len(files) : Len(files[i].rows) = split_size}
PartialFiles == {i \in 1..Len(files) : Len(files[i].rows) < split_size}

\* rows delivered and not dropped
Kept == Len(delivered) - Cardinality(dropped)

NotUS(ch) == ch # US

\* a written row holds the values of a delivered row: numbers as they are,
\* text without U+001F
SameRow(src, out) ==
    \A c \in 1..NumCols :
        /\ src[c].k = "num" => out[c] = src[c]
        /\ src[c].k = "str" => out[c] = Str(SelectSeq(src[c].s, NotUS))

\* C1 as stated: in multi-file mode, for a stream that delivers the n counted
\* rows, a clean run writes floor(n / split_size) full files, a partial file
\* iff n mod split_size # 0, and n minus the dropped rows in total.
C1_AsStated ==
    (CleanRun /\ MultiFileMode /\ Len(delivered) = total_rows) =>
        /\ Cardinality(FullFiles) = total_rows \div split_size
        /\ (PartialFiles # {}) <=> (total_rows % split_size # 0)
        /\ SumRows(files) = total_rows - Cardinality(dropped)

\* C1 amended: with d rows dropped, a clean multi-file run over n delivered
\* rows writes floor((n - d) / split_size) full files, exactly one partial
\* file iff (n - d) mod split_size # 0 and none otherwise, every file is
\* full or partial, and the files hold n - d rows in total.
C1_ChunkCounts ==
    (CleanRun /\ MultiFileMode /\ Len(delivered) = total_rows) =>
        /\ Cardinality(FullFiles) = Kept \div split_size
        /\ Cardinality(PartialFiles) = (IF Kept % split_size # 0 THEN 1 ELSE 0)
        /\ FullFiles \cup PartialFiles = 1..Len(files)
        /\ SumRows(files) = Kept

C1_Witness ==
    /\ CleanRun /\ MultiFileMode /\ Len(delivered) = total_rows
    /\ Cardinality(dropped) = 1
    /\ FullFiles # {} /\ PartialFiles # {}

\* C2: a clean run with a counted total <= SingleFileLimit writes exactly one
\* file, output.xlsx, with the header and every row of the main query result
\* in order (no row at all for an empty result), and no numbered file.
C2_SingleFile ==
    (CleanRun /\ Counted /\ SingleFileMode) =>
        /\ Len(files) = 1
        /\ files[1].name = <<"output", ".xlsx">>
        /\ files[1].header = columns
        /\ Len(files[1].rows) = Len(delivered)
        /\ \A i \in 1..Len(delivered) : SameRow(delivered[i], files[1].rows[i])

C2_Witness ==
    /\ CleanRun /\ SingleFileMode
    /\ total_rows = SingleFileLimit - 1
    /\ Len(delivered) = total_rows
    /\ Len(files) = 1 /\ Len(files[1].rows) = total_rows

\* the empty result of C2: one file with the header and no row
C2_EmptyWitness ==
    /\ CleanRun /\ total_rows = 0 /\ delivered = <<>>
    /\ Len(files) = 1 /\ files[1].rows = <<>> /\ files[1].header = columns

ChunkPcs == {"loop", "append", "check_split", "after_loop"}
SinglePcs == {"fetchall", "write_single"}

\* C3: a counted total equal to SingleFileLimit takes the single-file branch
\* (only output.xlsx is ever written); a counted total of SingleFileLimit + 1
\* takes the chunked branch, and once split_size rows were kept the first
\* file written is output_001.xlsx with exactly split_size rows.
C3_Boundary ==
    /\ total_rows = SingleFileLimit =>
          /\ pc \notin ChunkPcs
          /\ \A i \in 1..Len(files) : files[i].name = SingleFileName
          /\ CleanRun => Len(files) = 1
    /\ total_rows = SingleFileLimit + 1 =>
          /\ pc \notin SinglePcs
          /\ files # <<>> =>
                /\ files[1].name = <<"output", "_", "0", "0", "1", ".xlsx">>
                /\ Kept >= split_size => Len(files[1].rows) = split_size
          /\ (CleanRun /\ Kept >= split_size) => files # <<>>

C3_Witness ==
    /\ CleanRun /\ total_rows = SingleFileLimit + 1
    /\ Len(delivered) = total_rows
    /\ files # <<>> /\ Len(files[1].rows) = split_size

\* the single-file side of the boundary
C3_SingleWitness ==
    /\ CleanRun /\ total_rows = SingleFileLimit
    /\ Len(delivered) = total_rows
    /\ Len(files) = 1 /\ files[1].name = SingleFileName

\* C4 as stated: whenever the function is left, no connection and no cursor
\* acquired during the run is still open.
C4_AllReleased ==
    Done => /\ connState # "open"
            /\ \A c \in 1..2 : cursorState[c] # "open"

\* steps at which a connection error, a query error or a file write error
\* is raised
AnticipatedSteps ==
    { "init_client", "connect", "validate", "count", "execute", "fetch",
      "write_single", "write_full", "write_rest" }

\* C5 as stated: after an error of an anticipated category the except clause
\* that catches it raises nothing, so nothing propagates out of the function.
C5_HandlersRaiseNothing ==
    raisedAt \in AnticipatedSteps => exc # "UnboundLocalError"

IsRowFailed(e) == e.tag = "row_failed"

\* the delivered rows with the given indices removed / kept only
RECURSIVE Without(_, _)
Without(rows, idx) ==
    IF rows = <<>> THEN <<>>
    ELSE LET front == Without(SubSeq(rows, 1, Len(rows) - 1), idx)
         IN  IF Len(rows) \in idx THEN front ELSE Append(front, rows[Len(rows)])

RECURSIVE ConcatSrc(_)
ConcatSrc(fs) == IF fs = <<>> THEN <<>> ELSE Head(fs).src \o ConcatSrc(Tail(fs))

\* the row fetched and not yet appended is in neither buffer nor file
Pending == IF pc = "append" THEN {Len(delivered)} ELSE {}

\* number of kept rows in front of delivered row i
KeptBefore(i) == Cardinality((1..(i - 1)) \ dropped)

\* C6: in the chunked branch a row whose append raises is logged with its
\* position in the buffer and its content, is neither in the buffer nor in
\* its count nor in any file: while the loop runs the rows in files and
\* buffer are exactly the other delivered rows, after a clean run the files
\* hold exactly those, and with one such row among n that is n - 1 rows.
C6_RowSkipped ==
    (MultiFileMode /\ columnsBound) =>
        /\ Len(current_chunk) = current_count
        /\ pc \in ChunkPcs =>
              ConcatSrc(files) \o current_chunk
                 = Without(delivered, dropped \cup Pending)
        /\ CleanRun => ConcatSrc(files) = Without(delivered, dropped)
        /\ \A i \in 1..Len(files) :
              /\ Len(files[i].rows) = Len(files[i].src)
              /\ \A j \in 1..Len(files[i].src) :
                    SameRow(files[i].src[j], files[i].rows[j])
        /\ LET failed == SelectSeq(log, IsRowFailed)
               lost == Without(delivered, (1..Len(delivered)) \ dropped)
           IN  /\ Len(failed) = Cardinality(dropped)
               /\ [k \in 1..Len(failed) |-> failed[k].row] = lost
               /\ \A i \in dropped :
                     \E k \in 1..Len(failed) :
                        /\ failed[k].row = delivered[i]
                        /\ failed[k].idx = KeptBefore(i) % split_size
        /\ (CleanRun /\ Cardinality(dropped) = 1) =>
              SumRows(files) = Len(delivered) - 1

C6_Witness ==
    /\ CleanRun /\ MultiFileMode
    /\ dropped = {3}
    /\ Len(delivered) = MaxRows
    /\ SumRows(files) = MaxRows - 1

Numeric(dtype) == dtype \in {"int64", "float64"}

\* C7 as stated: in every file written, a null cell of an object column is
\* written as the empty string and a null cell of a numeric column as 0.
C7_NullFill ==
    \A f \in 1..Len(files) :
        \A i \in 1..Len(files[f].src) :
            \A c \in 1..NumCols :
                files[f].src[i][c].k = "null" =>
                    /\ ColDtype(files[f].src, c) = "object" =>
                          files[f].rows[i][c] = Str(<<>>)
                    /\ Numeric(ColDtype(files[f].src, c)) =>
                          files[f].rows[i][c] = Num(0)

Count(s, ch) == Cardinality({k \in 1..Len(s) : s[k] = ch})

\* C8: in every file written, a text value is written as text without any
\* U+001F and with its other characters unchanged and in order (so a text
\* value without U+001F is written as it is).
C8_ControlCharRemoved ==
    \A f \in 1..Len(files) :
        \A i \in 1..Len(files[f].src) :
            \A c \in 1..NumCols :
                files[f].src[i][c].k = "str" =>
                    /\ files[f].rows[i][c].k = "str"
                    /\ Count(files[f].rows[i][c].s, US) = 0
                    /\ files[f].rows[i][c].s
                          = SelectSeq(files[f].src[i][c].s, NotUS)
                    /\ Count(files[f].src[i][c].s, US) = 0 =>
                          files[f].rows[i][c] = files[f].src[i][c]

C8_Witness ==
    /\ Len(files) = 3
    /\ \A f \in 1..3 :
          /\ Count(files[f].src[1][1].s, US) = 2
          /\ files[f].rows[1][1] = Str(<<"a", "b">>)

Ops == {calls[k].op : k \in 1..Len(calls)}
DbOps == {"connect", "cursor", "execute_count", "execute_main"}

\* C9 as stated: a run that starts without database.txt ends with the
\* placeholder written, by sys.exit(0), without connecting, querying or
\* writing an output file.
C9_AsStated ==
    (absentAtStart.db /\ Done) =>
        /\ fileDb = [exists |-> TRUE, lines |-> DefaultDbLines]
        /\ pc = "exited" /\ exitCode = 0
        /\ Ops \cap DbOps = {}
        /\ files = <<>>

\* C9 amended: a run that starts without database.txt never connects, never
\* executes a query and writes no output file, and ends with exit status 0;
\* when init_oracle_client succeeded it ends by sys.exit(0) with the
\* placeholder written, and when init_oracle_client failed it ends by
\* returning after logging the error, with database.txt still absent.
C9_MissingCredentials ==
    absentAtStart.db =>
        /\ Ops \cap DbOps = {}
        /\ files = <<>>
        /\ Done =>
              /\ exitCode = 0
              /\ Call("init_oracle_client", 0, TRUE) \in {calls[k] : k \in 1..Len(calls)} =>
                    /\ pc = "exited"
                    /\ fileDb = [exists |-> TRUE, lines |-> DefaultDbLines]
              /\ Call("init_oracle_client", 0, FALSE) \in {calls[k] : k \in 1..Len(calls)} =>
                    /\ pc = "returned"
                    /\ ~fileDb.exists
                    /\ \E k \in 1..Len(log) : log[k].tag = "database_error"

C9_Witness ==
    /\ absentAtStart.db
    /\ pc = "exited" /\ exitCode = 0
    /\ fileDb.exists
    /\ calls = << Call("init_oracle_client", 0, TRUE) >>

\* C10: when params.txt is absent, read_sql_from_file writes it with
\* "SELECT * FROM dual\n" and returns "SELECT * FROM dual"; the export
\* function is entered with that query and the run ends early only through
\* the missing credential file.
C10_DefaultQuery ==
    (absentAtStart.params /\ pc # "main") =>
        /\ fileParams.exists
        /\ fileParams.content =
              <<"S", "E", "L", "E", "C", "T", " ", "*", " ",
                "F", "R", "O", "M", " ", "d", "u", "a", "l", "\n">>
        /\ sql = <<"S", "E", "L", "E", "C", "T", " ", "*", " ",
                   "F", "R", "O", "M", " ", "d", "u", "a", "l">>
        /\ log[1].tag = "sql_file_created"
        /\ pc = "exited" => absentAtStart.db
        /\ raisedAt # "validate"

C10_Witness ==
    /\ absentAtStart.params
    /\ CleanRun
    /\ files # <<>>

WriteSteps == {"write_single", "write_full", "write_rest"}
CleanupPcs == {"except", "finally_cursor", "finally_connection"}
IsToExcel(e) == e.op = "to_excel"
ToExcelCalls == SelectSeq(calls, IsToExcel)
CallSet == {calls[k] : k \in 1..Len(calls)}

\* C11: a to_excel call that fails is the last to_excel call of the run; the
\* files are those of the calls that succeeded; after the failure the run is
\* in the except / finally part or has left the function, every delivered
\* row is in a file written before or in the chunk that failed (nothing was
\* fetched afterwards), cursor.close() of the finally block is called before
\* the function is left, and no step after the failure changes the files.
C11_WriteFailureFatal ==
    /\ [](/\ \A k \in 1..Len(ToExcelCalls) :
                ~ToExcelCalls[k].ok => k = Len(ToExcelCalls)
          /\ Len(files) =
                Cardinality({k \in 1..Len(ToExcelCalls) : ToExcelCalls[k].ok})
          /\ raisedAt \in WriteSteps =>
                /\ pc \in CleanupPcs \/ Done
                /\ ToExcelCalls # <<>>
                /\ ~ToExcelCalls[Len(ToExcelCalls)].ok
                /\ ConcatSrc(files) \o
                      (IF raisedAt = "write_single" THEN delivered
                       ELSE current_chunk)
                      = Without(delivered, dropped)
                /\ Done => \E e \in CallSet :
                              e.op = "close_cursor" /\ e.obj = 2)
    /\ [][raisedAt' \in WriteSteps =>
             /\ files' = files
             /\ delivered' = delivered]_vars

C11_Witness ==
    /\ Done
    /\ raisedAt = "write_full"
    /\ Len(files) = 1
    /\ Len(delivered) = 2 * split_size
    /\ Len(ToExcelCalls) = 2
    /\ connState = "closed"

IsCountCall(e) == e.op = "execute_count"
IsMainCall(e) == e.op = "execute_main"
FirstIndex(op) == CHOOSE k \in 1..Len(calls) : calls[k].op = op

\* steps at which a library call or the validation raises
LibrarySteps ==
    { "init_client", "read_db_config", "config_key", "connect", "cursor",
      "validate", "count", "close_count", "reopen", "execute", "fetch",
      "write_single", "write_full", "write_rest", "finally_cursor",
      "finally_connection" }

\* C12: the count query is executed at most once, before the main query,
\* and total_rows keeps the value it returned; whatever number of rows the
\* main query then delivers, the branch taken is the one total_rows selects
\* (output.xlsx up to the limit, numbered files above it), no exception is
\* raised other than by a library call or the validation, and a clean run
\* has exported every delivered row that was not dropped.
C12_CountNotRevalidated ==
    /\ [](/\ Len(SelectSeq(calls, IsCountCall)) <= 1
          /\ Counted <=> Call("execute_count", 1, TRUE) \in CallSet
          /\ "execute_main" \in Ops =>
                /\ Counted
                /\ FirstIndex("execute_count") < FirstIndex("execute_main")
          /\ pc \in SinglePcs => total_rows <= SingleFileLimit
          /\ pc \in ChunkPcs => total_rows > SingleFileLimit
          /\ \A i \in 1..Len(files) :
                files[i].name = <<"output", ".xlsx">>
                   <=> total_rows <= SingleFileLimit
          /\ raisedAt \in LibrarySteps \cup {"none"}
          /\ CleanRun /\ Counted =>
                ConcatSrc(files) = Without(delivered, dropped))
    /\ [][total_rows # -1 => total_rows' = total_rows]_vars

\* fewer rows delivered than counted, in the chunked branch
C12_Witness ==
    /\ CleanRun
    /\ total_rows = MaxRows
    /\ Len(delivered) = 1
    /\ Len(files) = 1
    /\ files[1].name = ChunkFileName(1)
    /\ Len(files[1].rows) = 1

\* more rows delivered than counted, in the single-file branch
C12_MoreWitness ==
    /\ CleanRun
    /\ total_rows = 0
    /\ Len(delivered) = MaxRows
    /\ Len(files) = 1
    /\ files[1].name = SingleFileName
    /\ Len(files[1].rows) = MaxRows

NumKept == Len(delivered) - Cardinality(dropped)

\* C13: every numbered file holds at least one and at most split_size rows.
\* A step taken after the loop with an empty buffer makes no to_excel call
\* and writes nothing, so a clean chunked run whose kept rows are a multiple
\* of split_size (zero included) has written exactly that many full files
\* and no trailing one, and a stream of zero rows has written no file.
C13_NoEmptyChunk ==
    /\ [](/\ MultiFileMode =>
                \A i \in 1..Len(files) :
                    /\ Len(files[i].rows) >= 1
                    /\ Len(files[i].rows) <= split_size
                    /\ Len(files[i].src) = Len(files[i].rows)
          /\ (MultiFileMode
                /\ pc \in {"loop", "check_split", "after_loop", "finally_cursor"}
                /\ raisedAt = "none" /\ current_chunk = <<>>) =>
                /\ NumKept % split_size = 0
                /\ Len(files) = NumKept \div split_size
                /\ \A i \in 1..Len(files) : Len(files[i].rows) = split_size
          /\ (MultiFileMode /\ CleanRun /\ NumKept % split_size = 0) =>
                /\ Len(files) = NumKept \div split_size
                /\ \A i \in 1..Len(files) : Len(files[i].rows) = split_size
          /\ (MultiFileMode /\ CleanRun /\ delivered = <<>>) => files = <<>>)
    /\ [][(pc = "after_loop" /\ current_chunk = <<>>) =>
             /\ files' = files
             /\ calls' = calls
             /\ pc' = "finally_cursor"]_vars

\* an exact multiple of split_size: the full files and nothing after them
C13_Witness ==
    /\ MultiFileMode
    /\ CleanRun
    /\ Len(delivered) = 2 * split_size
    /\ dropped = {}
    /\ current_chunk = <<>>
    /\ Len(files) = 2

\* a chunked run whose stream delivered no row at all
C13_ZeroRowsWitness ==
    /\ MultiFileMode
    /\ CleanRun
    /\ delivered = <<>>
    /\ files = <<>>

\* the name expected for the k-th numbered file, k below 10
NumberedName(k) == <<"output", "_", "0", "0", DigitChar[k + 1], ".xlsx">>

FileNames == {files[i].name : i \in 1..Len(files)}

\* C14: in the chunked branch the k-th file written is output_00k.xlsx, so
\* the names of one run are pairwise distinct and consecutive from 001 and
\* output.xlsx is not among them; the counter is 1 when the loop starts,
\* equals the number of files written plus one while rows are streamed,
\* changes only by +1 and only in a step that writes a file, and each write
\* (successful or not) is made under the counter's current value.
C14_NumberedNames ==
    /\ [](MultiFileMode =>
            /\ \A k \in 1..Len(files) : files[k].name = NumberedName(k)
            /\ \A j, k \in 1..Len(files) :
                  files[j].name = files[k].name => j = k
            /\ <<"output", ".xlsx">> \notin FileNames
            /\ \A k \in 1..Len(ToExcelCalls) : ToExcelCalls[k].obj = k
            /\ pc \in ChunkPcs => file_counter = Len(files) + 1)
    /\ [][/\ (pc = "execute" /\ pc' = "loop") => file_counter' = 1
          /\ file_counter' # file_counter =>
                \/ pc = "execute"
                \/ /\ file_counter' = file_counter + 1
                   /\ Len(files') = Len(files) + 1
          /\ (MultiFileMode /\ Len(files') = Len(files) + 1) =>
                files'[Len(files')].name = NumberedName(file_counter)]_vars

\* two full files and a trailing one, numbered 001, 002, 003
C14_Witness ==
    /\ MultiFileMode
    /\ CleanRun
    /\ Len(files) = 3
    /\ files[3].name = <<"output", "_", "0", "0", "3", ".xlsx">>
    /\ Len(files[3].rows) < split_size

OpenCursors == {c \in DOMAIN cursorState : cursorState[c] = "open"}
IsConnectCall(e) == e.op = "connect" /\ e.ok
IsCursorCall(e) == e.op = "cursor" /\ e.ok

\* C15: at most one connection is ever opened and at most one cursor is
\* open at a time; the second cursor is opened only after the close of the
\* first has returned, in both branches, and the connection is open whenever
\* a cursor is.
C15_OneConnectionOneCursor ==
    /\ [](/\ Len(SelectSeq(calls, IsConnectCall)) <= 1
          /\ Len(SelectSeq(calls, IsCursorCall)) <= 2
          /\ Cardinality(OpenCursors) <= 1
          /\ OpenCursors # {} => connState = "open"
          /\ cursorState[2] # "unopened" =>
                /\ cursorState[1] = "closed"
                /\ Call("close_cursor", 1, TRUE) \in CallSet
                /\ \E k \in 1..Len(calls) :
                      /\ calls[k] = Call("cursor", 2, TRUE)
                      /\ \E j \in 1..(k - 1) :
                            calls[j] = Call("close_cursor", 1, TRUE))
    /\ [][(cursorState[2] = "unopened" /\ cursorState'[2] = "open") =>
             /\ pc = "reopen"
             /\ cursorState[1] = "closed"]_vars

\* the main-query cursor is open in the chunked branch, the count cursor closed
C15_Witness ==
    /\ pc = "loop"
    /\ MultiFileMode
    /\ cursorState = <<"closed", "open">>
    /\ connState = "open"
    /\ Len(delivered) = 1

\* the same in the single-file branch
C15_SingleWitness ==
    /\ pc = "write_single"
    /\ SingleFileMode
    /\ cursorState = <<"closed", "open">>
    /\ connState = "open"

\* position of a recorded call in the order of the steps
CallRank(e) ==
    CASE e.op = "connect" -> 1
      [] e.op = "execute_count" -> 3
      [] e.op = "execute_main" -> 4
      [] e.op = "to_excel" -> 5
      [] e.op = "close_connection" -> 6
      [] OTHER -> 0

\* position of a control point in the order of the steps
StepRank(p) ==
    CASE p \in {"main", "init_client", "read_db_config"} -> 0
      [] p \in {"connect", "cursor"} -> 1
      [] p = "validate" -> 2
      [] p = "count" -> 3
      [] p \in {"close_count", "reopen", "execute"} -> 4
      [] p \in {"fetchall", "write_single"} \cup ChunkPcs -> 5
      [] p \in CleanupPcs -> 6
      [] OTHER -> 7

LogTags == {log[k].tag : k \in 1..Len(log)}
IsCloseCursor1(e) == e.op = "close_cursor" /\ e.obj = 1

\* C16: the steps are taken in the order connect, validate, count query,
\* main query, file writes, cleanup: control never moves back to an earlier
\* step and the recorded calls appear in that order, the count query only
\* after a validation that passed. When the validation fails, validate_sql
\* logs the failure and raises ValueError again, no count query, main query
\* or file write follows, and the cleanup calls close on the (still open)
\* cursor exactly once and then on the connection; when those calls return,
\* both are closed.
C16_StepOrder ==
    /\ [](/\ \A j, k \in 1..Len(calls) :
                (j < k /\ CallRank(calls[j]) > 0 /\ CallRank(calls[k]) > 0)
                    => CallRank(calls[j]) <= CallRank(calls[k])
          /\ StepRank(pc) \in 2..5 => Call("connect", 0, TRUE) \in CallSet
          /\ "execute_count" \in Ops => Parsed(sql) # <<>>
          /\ "close_connection" \in Ops =>
                calls[Len(calls)].op = "close_connection"
          /\ raisedAt = "validate" =>
                /\ "sql_validation_failed" \in LogTags
                /\ Parsed(sql) = <<>>
                /\ {"execute_count", "execute_main", "to_excel"} \cap Ops = {}
                /\ files = <<>>
                /\ total_rows = -1
                /\ pc = "except" => exc = "ValueError"
                /\ Done =>
                      /\ Len(SelectSeq(calls, IsCloseCursor1)) = 1
                      /\ Call("close_cursor", 1, TRUE) \in CallSet
                            => "close_connection" \in Ops
                      /\ (\A e \in CallSet : e.ok) =>
                            /\ cursorState[1] = "closed"
                            /\ connState = "closed"
                            /\ pc = "returned")
    /\ [][/\ StepRank(pc') >= StepRank(pc)
          /\ (pc = "validate" /\ Parsed(sql) = <<>>) =>
                /\ pc' = "except"
                /\ exc' = "ValueError"
                /\ raisedAt' = "validate"
                /\ Len(log') = Len(log) + 1]_vars

\* an empty query: validation failed, nothing was queried or written, and
\* the cleanup closed the cursor and the connection
C16_Witness ==
    /\ Done
    /\ raisedAt = "validate"
    /\ sql = <<>>
    /\ files = <<>>
    /\ cursorState[1] = "closed"
    /\ connState = "closed"
    /\ "value_error" \in LogTags

\* C17 as stated: whichever of the three paths wrote a file, its rows are
\* what the full-chunk sanitization and what the trailing-chunk sanitization
\* make of the same chunk.
C17_SamePaths ==
    \A f \in 1..Len(files) :
        /\ files[f].rows = SanitizeVectorized(files[f].src)
        /\ files[f].rows = SanitizeApplymap(files[f].src)

\* the delivered rows that were not dropped, in stream order
KeptRows == Without(delivered, dropped)

\* number of rows in the files written before file i
Offset(i) == SumRows(SubSeq(files, 1, i - 1))

\* C18: in the chunked branch file i holds the kept rows number
\* Offset(i) + 1 .. Offset(i) + (rows of file i) of the stream, in stream
\* order: the files are consecutive, disjoint segments of the kept rows, and
\* while the loop runs the buffer is the segment after the last file. After
\* a clean run the segments cover the kept rows. A write in the loop leaves
\* the buffer empty, and every write takes exactly the buffer.
C18_OrderedPartition ==
    /\ [](MultiFileMode =>
            /\ SumRows(files) <= NumKept
            /\ \A i \in 1..Len(files) :
                  /\ Len(files[i].src) = Len(files[i].rows)
                  /\ files[i].src =
                        SubSeq(KeptRows, Offset(i) + 1,
                               Offset(i) + Len(files[i].rows))
            /\ pc \in {"loop", "check_split", "after_loop"} =>
                  current_chunk =
                     SubSeq(KeptRows, SumRows(files) + 1, NumKept)
            /\ CleanRun =>
                  /\ SumRows(files) = NumKept
                  /\ ConcatSrc(files) = KeptRows)
    /\ [][(MultiFileMode /\ Len(files') = Len(files) + 1) =>
             /\ files'[Len(files')].src = current_chunk
             /\ SubSeq(files', 1, Len(files)) = files
             /\ pc = "check_split" => current_chunk' = <<>> /\ current_count' = 0
             /\ pc = "after_loop" => pc' = "finally_cursor"]_vars

\* a full file and a shorter trailing one over a stream with one dropped row
C18_Witness ==
    /\ MultiFileMode
    /\ CleanRun
    /\ Len(delivered) = 2 * split_size
    /\ Cardinality(dropped) = 1
    /\ Len(files) = 2
    /\ Len(files[2].rows) = split_size - 1
    /\ delivered[1] # delivered[2]

IsClose(e) == e.op \in {"close_cursor", "close_connection"}

\* C19 as stated: close is never invoked on a cursor or connection whose
\* close has already returned, so none is closed more than once.
C19_ClosedOnce ==
    \A j, k \in 1..Len(calls) :
        (j < k /\ IsClose(calls[j]) /\ calls[j].ok)
            => ~(calls[k].op = calls[j].op /\ calls[k].obj = calls[j].obj)
====
